---------------------------- MODULE Spec2Model ----------------------------
(***************************************************************************)
(* Buildboard landing page (frontend/app/index.tsx, second version in the  *)
(* file, lines 487-1212) and referral page (unnamed/part_003).             *)
(*                                                                         *)
(* One page component instance is modelled at a time: `page` says which.   *)
(* Handlers run to completion up to their next `await`; every `await` in   *)
(* the page's source (trigger(), fetch()) and every setTimeout is a place  *)
(* where other events may be handled first.  Library calls (react-hook-    *)
(* form's handleSubmit validation, reset) run as part of the step that     *)
(* calls them.  Strings are sequences of one-character strings so that     *)
(* trim() and the e-mail pattern are computed, not assumed.                *)
(*                                                                         *)
(* The prototype web app (frontend/src/App.js with unnamed/part_004) is a  *)
(* separate program with its own variables: its session (useAuth, the      *)
(* axios instance `api`) and its build editor (linkPart).                  *)
(***************************************************************************)
EXTENDS Integers, Sequences, FiniteSets, TLC

VARIABLES
    page,          \* "index" (Index component) or "refer" (Refer component)
    platform,      \* Platform.OS: "web" or "ios"
    values,        \* react-hook-form field values of the page's form
    errors,        \* formState.errors, as the set of fields with an error
    joinPending,   \* onPressJoin invocations suspended at `await trigger()`
    inflight,      \* POSTs awaiting their response: the values passed to the handler
    submitting,    \* useState submitting
    thankYou,      \* useState thankYou (index) / thanks (refer)
    successModal,  \* useState successModal
    submitError,   \* useState submitError (refer)
    toast,         \* useState toast
    toastTimers,   \* pending setTimeout(() => setToast(null), 2500): due times
    focused,       \* the input last given focus by onPressJoin
    taps,          \* submit taps accepted so far (bounds the run)
    sectionYs,     \* useState sectionYs: a function from the ids recorded so far to offsets
    navTimers,     \* pending onNav retries: [id, due, y2], y2 the callback's sectionYs[id]
    width,         \* useState width
    menuVisible,   \* useState menuVisible
    scroll,        \* the last scroll command issued: {} before any, else {y}
    now,           \* milliseconds since mount
    ev,            \* the handler that ran last and its outcome
    left,          \* the user has navigated away from the page (router.push / router.replace)
    location,      \* the URL the page was loaded at, or the link that opened the app
    utm,           \* the result of useUTM(), memoized at mount
    footerEmail,   \* FooterEmail's useState email
    footerInflight,\* footer POSTs awaiting their response
    tracked,       \* analytics events handed to sendGA4 so far
    gaConfigured,  \* both GA4 environment values are set
    gaPending,     \* analytics requests sendGA4 is awaiting
    resp,          \* the response handled by the last step, if any: kind and detail
    token,         \* App.js useAuth: useState token, as stored under bb_token
    authHeader,    \* api.defaults.headers.common['Authorization']: the token it bears
    route,         \* the route react-router renders
    effects,       \* passive effects of the last commit not yet run, in run order
    issued,        \* requests made through api: path, header sent, token stored then
    loginPending,  \* Login.submit is awaiting api.post('/auth/login')
    parts,         \* BuildEditor useState parts, as its length
    linkedAtServer,\* the number of parts the server has linked to the build
    linkPosts,     \* linkPart calls awaiting their POST: orderIndex sent, handled or not
    partsGets,     \* GET /builds/:id/parts awaiting delivery: the count the server gave
    sentIndexes    \* every orderIndex sent so far with the server's count at that time

formVars  == <<values, errors, joinPending, inflight, submitting, thankYou,
               successModal, submitError, focused, taps>>
toastVars == <<toast, toastTimers>>
navVars   == <<sectionYs, navTimers, scroll, width, menuVisible>>
attrVars  == <<location, utm>>
footerVars == <<footerEmail, footerInflight>>
trackVars == <<tracked, gaConfigured, gaPending>>
landingVars == <<page, platform, formVars, toastVars, navVars, now, ev, left,
                 attrVars, footerVars, trackVars, resp>>
authVars  == <<token, authHeader, route, effects, issued, loginPending>>
editorVars == <<parts, linkedAtServer, linkPosts, partsGets, sentIndexes>>
appVars   == <<authVars, editorVars>>
vars      == <<landingVars, appVars>>

---------------------------------------------------------------------------
(* Bounds of the model *)
MaxTaps == 2

(* Program constants *)
HEADER_HEIGHT == 88
RETRY_MS == 250
TOAST_MS == 2500
MIN_LENGTH == 2

None == "undefined"

---------------------------------------------------------------------------
(* Strings *)

IsSpace(c) == c = " "

RECURSIVE TrimStart(_)
TrimStart(s) == IF s # <<>> /\ IsSpace(Head(s)) THEN TrimStart(Tail(s)) ELSE s

RECURSIVE TrimEnd(_)
TrimEnd(s) ==
    IF s # <<>> /\ IsSpace(s[Len(s)]) THEN TrimEnd(SubSeq(s, 1, Len(s) - 1)) ELSE s

\* String.prototype.trim
Trim(s) == TrimEnd(TrimStart(s))

\* the character class [^\s@]
NotSpaceAt(c) == ~IsSpace(c) /\ c # "@"

\* /[^\s@]+@[^\s@]+\.[^\s@]+/ as RegExp.test does it: a match anywhere in s
EmailPattern(s) ==
    \E i \in 2..Len(s) :
        /\ s[i] = "@"
        /\ NotSpaceAt(s[i - 1])
        /\ \E j \in (i + 2)..(Len(s) - 1) :
              /\ s[j] = "."
              /\ \A k \in (i + 1)..(j - 1) : NotSpaceAt(s[k])
              /\ NotSpaceAt(s[j + 1])

---------------------------------------------------------------------------
(* Inputs a user (or a bot) can put into the fields *)

S_empty  == <<>>
S_A      == <<"A">>
S_Al     == <<"A", "l">>
S_spA    == <<" ", "A">>
S_bad    == <<"b", "a", "d">>
S_mail   == <<"a", "@", "b", ".", "c">>
S_spmail == <<"x", " ", "a", "@", "b", ".", "c">>
S_sp     == <<" ">>
S_x      == <<"x">>

NameInputs  == {S_A, S_Al, S_spA}
EmailInputs == {S_bad, S_mail, S_spmail}
HpInputs    == {S_sp, S_x}
TextInputs  == {S_x}

WaitlistFields == {"name", "email", "role", "hp"}
ReferFields    == {"referrer_name", "referrer_email", "referral_type",
                   "referral_name", "referral_contact", "notes", "hp"}

Fields(p) == IF p = "index" THEN WaitlistFields ELSE ReferFields

\* what the controls of page p can put into field f (the fields start at
\* their defaults, so the empty string is not listed)
FieldInputs(p, f) ==
    CASE f = "name" -> NameInputs
      [] f = "email" -> EmailInputs
      [] f = "role" -> {"Enthusiast", "Builder"}
      [] f \in {"referrer_name", "referral_name"} -> {S_A, S_Al}
      [] f = "referrer_email" -> {S_bad, S_mail}
      [] f = "referral_type" -> {"Shop", "Builder"}
      [] f = "hp" -> HpInputs
      [] OTHER -> TextInputs

\* useForm({ defaultValues })
DefaultValues(p) ==
    IF p = "index"
    THEN [name |-> S_empty, email |-> S_empty, role |-> None, hp |-> S_empty]
    ELSE [referrer_name |-> S_empty, referrer_email |-> S_empty,
          referral_type |-> None, referral_name |-> S_empty,
          referral_contact |-> S_empty, notes |-> S_empty, hp |-> S_empty]

---------------------------------------------------------------------------
(* Attribution: useUTM() *)

\* a URL is its origin and path together with its query, the query a function
\* from the keys present to their (first) values
WebOrigin == "https://buildboard.app/"
AppOrigin == "app://buildboard"

Url(origin, query) == [origin |-> origin, query |-> query]

\* 'app://buildboard'
AppUrl == Url(AppOrigin, <<>>)

UtmKeys == {"utm_source", "utm_campaign", "utm_medium"}

\* URLSearchParams.get: null for a key that is absent
Null == "null"
SearchGet(query, k) == IF k \in DOMAIN query THEN query[k] ELSE Null

\* v || undefined: null and the empty string are falsy
OrUndefined(v) == IF v = Null \/ v = "" THEN None ELSE v

\* v || null
OrNull(v) == IF v = None \/ v = "" THEN Null ELSE v

\* the params object useUTM() returns for a page loaded at loc on platform os;
\* on native LinkingExpo.useURL() has no URL yet on the first render
UseUTM(os, loc) ==
    IF os = "web"
    THEN [source_url   |-> loc,
          utm_source   |-> OrUndefined(SearchGet(loc.query, "utm_source")),
          utm_campaign |-> OrUndefined(SearchGet(loc.query, "utm_campaign")),
          utm_medium   |-> OrUndefined(SearchGet(loc.query, "utm_medium")),
          prefill_role |-> OrUndefined(SearchGet(loc.query, "role"))]
    ELSE [source_url   |-> AppUrl,
          utm_source   |-> None,
          utm_campaign |-> None,
          utm_medium   |-> None,
          prefill_role |-> None]

\* String.prototype.toLowerCase on the role values a link carries
ToLowerCase(str) ==
    CASE str = "Builder" -> "builder"
      [] str = "Shop" -> "shop"
      [] OTHER -> str

\* the prefill effect: map[(utm.prefill_role || '').toLowerCase()]
PrefillRole(u) ==
    LET r == ToLowerCase(IF u.prefill_role = None THEN "" ELSE u.prefill_role)
    IN  CASE r = "enthusiast" -> "Enthusiast"
          [] r = "builder" -> "Builder"
          [] r = "shop" -> "Shop"
          [] r = "brand" -> "Brand"
          [] OTHER -> None

\* the keys of a request body that can hold undefined
OptionalKeys == UtmKeys \cup {"role", "referral_type"}

\* variant that writes an undefined value as null
JsonStringify_Nulls(obj) ==
    [k \in DOMAIN obj |->
        IF k \in OptionalKeys /\ obj[k] = None THEN Null ELSE obj[k]]

\* JSON.stringify(obj): a key whose value is undefined is left out
JsonStringify(obj) ==
    [k \in {j \in DOMAIN obj : j \notin OptionalKeys \/ obj[j] # None} |-> obj[k]]

\* a link with a source, an empty medium and no campaign
DefaultUrl == Url(WebOrigin, [k \in {"utm_source", "utm_medium"} |->
                                 IF k = "utm_source" THEN "ig" ELSE ""])

\* the URLs a page is loaded at: any of the three keys present, with empty or
\* non-empty values, and links that carry a role
QueryValues == {"", "ig"}
Queries ==
    {[k \in ks |-> v] : ks \in SUBSET UtmKeys, v \in QueryValues}
        \cup {DefaultUrl.query,
              [k \in {"role"} |-> "Builder"],
              [k \in {"role", "utm_source"} |-> "ig"]}
Urls == {Url(WebOrigin, q) : q \in Queries}

\* window.location.href now: the URL the page was loaded at until the user
\* leaves it, then the route gone to (router.push('/refer') from the index
\* page, router.replace('/') from the referral page)
Address ==
    IF ~left \/ platform # "web" THEN location
    ELSE IF page = "index" THEN Url("https://buildboard.app/refer", <<>>)
    ELSE Url(WebOrigin, <<>>)

\* the page is loaded at loc: useUTM() runs once
Loaded(loc) ==
    /\ location = loc
    /\ utm = UseUTM(platform, loc)

---------------------------------------------------------------------------
(* Field rules (the Controller rules props) *)

\* variant of the rules that keeps `required` only (no minLength, no pattern)
FieldValid_RequiredOnly(f, v) ==
    IF f \in {"role", "referral_type"} THEN v # None
    ELSE IF f \in {"name", "email", "referrer_name", "referrer_email",
                   "referral_name"} THEN v # S_empty
    ELSE TRUE

\* the rule of field f applied to value v; required: true fails on an empty
\* string (text inputs) and on undefined (the selects)
FieldValid(f, v) ==
    CASE f \in {"name", "referrer_name", "referral_name"} ->
            v # S_empty /\ Len(v) >= MIN_LENGTH
      [] f \in {"email", "referrer_email"} -> v # S_empty /\ EmailPattern(v)
      [] f \in {"role", "referral_type"} -> v # None
      [] OTHER -> TRUE

\* the fields a full validation (trigger(), handleSubmit) reports in error
InvalidFields(p, vals) == {f \in Fields(p) : ~FieldValid(f, vals[f])}

\* formState.isValid
IsValid(p, vals) == InvalidFields(p, vals) = {}


---------------------------------------------------------------------------
(* Notification layer *)

MSG_GENERIC == "Couldn't submit right now. Please try again."
MSG_CORRECT == "Please correct highlighted fields."
MSG_TYPE    == "Please select a valid referral type."
MSG_DETAIL  == "Email already referred."
MSG_JSON    == "[{\"loc\":\"referrer_email\"}]"

NoToast == "null"

\* showToast: setToast(msg); setTimeout(() => setToast(null), 2500)
ShowToast(msg) ==
    /\ toast' = msg
    /\ toastTimers' = Append(toastTimers, now + TOAST_MS)

Event(k) == k

---------------------------------------------------------------------------
(* Responses and analytics calls *)

\* what `await res.json()` gives for an error body: t is the type of its
\* detail ("absent": no detail key, "unparsable": json() rejects) and s the
\* detail's text, for an object or a number its JSON text
Detail(t, s) == [t |-> t, s |-> s]
NoDetail == Detail("absent", "")

DetailKinds ==
    {Detail("string", MSG_DETAIL), Detail("string", ""), Detail("object", MSG_JSON),
     Detail("number", "0"), NoDetail, Detail("unparsable", "")}

\* JavaScript truthiness of err?.detail
Truthy(d) ==
    CASE d.t = "string" -> d.s # ""
      [] d.t = "object" -> TRUE
      [] d.t = "number" -> d.s # "0"
      [] OTHER -> FALSE

\* JSON.stringify(err.detail): a string is quoted, an object or a number
\* gives its JSON text
JsonText(d) ==
    CASE d.t = "string" /\ d.s = MSG_DETAIL -> "\"Email already referred.\""
      [] d.t = "string" -> "\"\""
      [] OTHER -> d.s

\* variant that serializes every detail, strings included
DetailMessage_AlwaysJson(d) ==
    IF d.t # "unparsable" /\ Truthy(d) THEN JsonText(d) ELSE MSG_GENERIC

\* the message of a non-2xx referral response whose body gives d
DetailMessage(d) ==
    IF d.t # "unparsable" /\ Truthy(d)
    THEN IF d.t = "string" THEN d.s ELSE JsonText(d)
    ELSE MSG_GENERIC

NoResponse == [kind |-> "none", detail |-> NoDetail]

\* the awaited fetch settled: kind is "ok2xx", "non2xx" or "neterr"
Received(kind, d) == resp' = [kind |-> kind, detail |-> d]

\* a step in which no fetch settles
NoFetchSettles == resp' = NoResponse

\* an analytics call made by form `form` after a response of kind `status`
Tracked(event, form, status) == [event |-> event, form |-> form, status |-> status]

\* sendGA4 called n times: without both environment values it logs and
\* returns; with them each call starts a request that sendGA4 itself awaits
\* inside its own try; the caller holds the promise and does not await it
SendGA4(n) ==
    /\ gaPending' = IF gaConfigured THEN gaPending + n ELSE gaPending
    /\ gaConfigured' = gaConfigured

FormName(p) == IF p = "index" THEN "waitlist" ELSE "referral"
SubmitEvent(p) == IF p = "index" THEN "waitlist_submit" ELSE "referral_submit"
ModalEvent(p) ==
    IF p = "index" THEN "waitlist_success_modal_shown"
    ELSE "referral_success_modal_shown"

---------------------------------------------------------------------------
(* Section registry and navigator (non-web fallback and the web path) *)

SectionIds == {"Hero", "Problem", "Solution", "Product", "WhoFor",
               "Community", "Signup", "Footer"}
TargetIds  == {"Problem", "Solution", "WhoFor", "Community", "Signup"}

\* e.nativeEvent.layout.y of section id: an example layout, the same at
\* every width
LayoutY(id) == IF id = "Hero" THEN 0 ELSE IF id = "Problem" THEN 40 ELSE 600

Widths == {375, 1024}

Max0(n) == IF n > 0 THEN n ELSE 0

\* Math.max(0, y - 88)
ScrollTarget(y) == Max0(y - HEADER_HEIGHT)

\* sectionYs[id] as an optional value: {} when undefined
Lookup(ys, id) == IF id \in DOMAIN ys THEN {ys[id]} ELSE {}

\* const y2 = sectionYs[id] inside the retry callback: sectionYs there is the
\* constant of the render whose onNav scheduled the retry, so the callback
\* reads what that map held
RetryReads(id) == Lookup(sectionYs, id)

\* onNav(id): the sectionYs, navTimers and scroll part of the step
OnNav(id) ==
    /\ sectionYs' = sectionYs
    /\ width' = width
    /\ IF platform = "web"
       THEN \* document.getElementById(id) exists for every section: scrollTo(top - 88)
            /\ scroll' = {LayoutY(id) - HEADER_HEIGHT}
            /\ navTimers' = navTimers
       ELSE IF id \in DOMAIN sectionYs
            THEN /\ scroll' = {ScrollTarget(sectionYs[id])}
                 /\ navTimers' = navTimers
            ELSE /\ scroll' = scroll
                 /\ navTimers' = Append(navTimers,
                        [id |-> id, due |-> now + RETRY_MS, y2 |-> RetryReads(id)])

---------------------------------------------------------------------------
(* Form controller: field edits *)

\* the overlay of the success modal covers the page
Blocked == successModal

\* a Controller's onChange: sets the field; a field shown in error is
\* re-validated on change (reValidateMode: 'onChange')
SetField(f, v) ==
    /\ ~Blocked /\ ~left
    /\ values[f] # v
    /\ values' = [values EXCEPT ![f] = v]
    /\ errors' = IF f \in errors /\ FieldValid(f, v) THEN errors \ {f} ELSE errors
    /\ ev' = Event("edit")
    /\ NoFetchSettles
    /\ UNCHANGED <<appVars, page, platform, left, attrVars, footerVars,
                   trackVars, joinPending, inflight, submitting, thankYou,
                   successModal, submitError, focused, taps, toastVars,
                   navVars, now>>

Edit == \E f \in Fields(page) : \E v \in FieldInputs(page, f) : SetField(f, v)

---------------------------------------------------------------------------
(* Waitlist form (index page) *)

\* variant with the honeypot test negated
HoneypotFilled_Inverted(vals) == Len(Trim(vals.hp)) = 0

\* (values.hp || '').trim().length > 0
HoneypotFilled(vals) == Len(Trim(vals.hp)) > 0

\* the Join button: disabled={!isValid || submitting}; onPressJoin runs up to
\* `await trigger()`
PressJoin ==
    /\ page = "index"
    /\ ~Blocked /\ ~left
    /\ IsValid(page, values) /\ ~submitting
    /\ taps < MaxTaps
    /\ taps' = taps + 1
    /\ joinPending' = Append(joinPending, [errors |-> errors])
    /\ ev' = Event("tap")
    /\ NoFetchSettles
    /\ UNCHANGED <<appVars, page, platform, left, attrVars, footerVars,
                   trackVars, values, errors, inflight, submitting, thankYou,
                   successModal, submitError, focused, toastVars, navVars,
                   now>>

\* variant that reads the attribution from the address bar when sending
WaitlistBody_Live(vals) ==
    LET live == UseUTM(platform, Address)
    IN  JsonStringify([name         |-> Trim(vals.name),
                       email        |-> Trim(vals.email),
                       role         |-> vals.role,
                       source_url   |-> live.source_url,
                       utm_source   |-> live.utm_source,
                       utm_campaign |-> live.utm_campaign,
                       utm_medium   |-> live.utm_medium])

\* the body of the waitlist POST
WaitlistBody(vals) ==
    JsonStringify([name         |-> Trim(vals.name),
                   email        |-> Trim(vals.email),
                   role         |-> vals.role,
                   source_url   |-> utm.source_url,
                   utm_source   |-> utm.utm_source,
                   utm_campaign |-> utm.utm_campaign,
                   utm_medium   |-> utm.utm_medium])

\* submitWaitlist(vals) up to `await fetch(...)`
SubmitWaitlist(vals) ==
    IF HoneypotFilled(vals)
    THEN /\ ev' = Event("dropped")
         /\ UNCHANGED <<inflight, submitting>>
    ELSE /\ submitting' = TRUE
         /\ inflight' = Append(inflight, [values |-> vals, body |-> WaitlistBody(vals)])
         /\ ev' = Event("sent")

\* onPressJoin after trigger() resolved, with the errors of its own render
JoinResume ==
    /\ page = "index"
    /\ joinPending # <<>>
    /\ joinPending' = Tail(joinPending)
    /\ errors' = InvalidFields(page, values)
    /\ IF ~IsValid(page, values)
       THEN /\ OnNav("Signup")
            /\ menuVisible' = menuVisible
            /\ focused' = IF "name" \in Head(joinPending).errors THEN "name"
                          ELSE IF "email" \in Head(joinPending).errors THEN "email"
                          ELSE focused
            /\ ShowToast(MSG_CORRECT)
            /\ ev' = Event("invalid")
            /\ UNCHANGED <<inflight, submitting>>
       ELSE \* handleSubmit(submitWaitlist)(): validates, then calls the handler
            /\ SubmitWaitlist(values)
            /\ UNCHANGED <<focused, toastVars, navVars>>
    /\ NoFetchSettles
    /\ UNCHANGED <<appVars, page, platform, left, attrVars, footerVars,
                   trackVars, values, thankYou, successModal, submitError,
                   taps, now>>

---------------------------------------------------------------------------
(* Referral form (refer page) *)

\* the body of the referral POST; the page's useUTM() has no prefill_role
ReferralBody(vals) ==
    LET contact == Trim(vals.referral_contact)
        notes   == Trim(vals.notes)
        base    == [source_url     |-> utm.source_url,
                    utm_source     |-> utm.utm_source,
                    utm_campaign   |-> utm.utm_campaign,
                    utm_medium     |-> utm.utm_medium,
                    referrer_name  |-> Trim(vals.referrer_name),
                    referrer_email |-> Trim(vals.referrer_email),
                    referral_type  |-> vals.referral_type,
                    referral_name  |-> Trim(vals.referral_name)]
        \* value?.trim() || undefined: left out when nothing remains
        opt     == [k \in {j \in {"referral_contact", "notes"} : Trim(vals[j]) # <<>>}
                      |-> IF k = "notes" THEN notes ELSE contact]
    IN  JsonStringify(base) @@ opt

\* variant of submit without the referral-type test
SubmitReferral_NoTypeTest(vals) ==
    IF HoneypotFilled(vals)
    THEN /\ ev' = Event("dropped")
         /\ UNCHANGED <<inflight, submitting, submitError>>
    ELSE /\ submitting' = TRUE
         /\ inflight' = Append(inflight, [values |-> vals, body |-> ReferralBody(vals)])
         /\ ev' = Event("sent")
         /\ UNCHANGED submitError

\* submit(vals) up to `await fetch(...)`
SubmitReferral(vals) ==
    IF HoneypotFilled(vals)
    THEN /\ ev' = Event("dropped")
         /\ UNCHANGED <<inflight, submitting, submitError>>
    ELSE IF vals.referral_type # "Shop" /\ vals.referral_type # "Builder"
    THEN /\ submitError' = MSG_TYPE
         /\ ev' = Event("badtype")
         /\ UNCHANGED <<inflight, submitting>>
    ELSE /\ submitting' = TRUE
         /\ inflight' = Append(inflight, [values |-> vals, body |-> ReferralBody(vals)])
         /\ ev' = Event("sent")
         /\ UNCHANGED submitError

\* the Submit button: disabled={!canSubmit}, onPress={handleSubmit(submit)}
PressSubmit ==
    /\ page = "refer"
    /\ ~Blocked /\ ~left
    /\ IsValid(page, values) /\ ~submitting
    /\ taps < MaxTaps
    /\ taps' = taps + 1
    /\ errors' = InvalidFields(page, values)
    /\ SubmitReferral(values)
    /\ NoFetchSettles
    /\ UNCHANGED <<appVars, page, platform, left, attrVars, footerVars,
                   trackVars, values, joinPending, thankYou, successModal,
                   focused, toastVars, navVars, now>>

---------------------------------------------------------------------------
(* Responses: the handler from `await fetch` to the end of its finally *)

RemoveAt(q, i) == SubSeq(q, 1, i - 1) \o SubSeq(q, i + 1, Len(q))

\* variant of reset() that clears the errors and keeps the values
ResetForm_ErrorsOnly ==
    /\ values' = values
    /\ errors' = {}

\* reset(): back to defaultValues, errors cleared
ResetForm ==
    /\ values' = DefaultValues(page)
    /\ errors' = {}

\* variant of the success branch that awaits the tracking calls: with
\* analytics configured the handler is still suspended before reset()
Respond2xx_AwaitsTracking(i) ==
    /\ inflight' = RemoveAt(inflight, i)
    /\ thankYou' = TRUE
    /\ successModal' = TRUE
    /\ tracked' = tracked \cup
          {Tracked(SubmitEvent(page), FormName(page), "ok2xx"),
           Tracked(ModalEvent(page), FormName(page), "ok2xx")}
    /\ SendGA4(2)
    /\ IF gaConfigured
       THEN UNCHANGED <<values, errors, submitting>>
       ELSE ResetForm /\ submitting' = FALSE
    /\ Received("ok2xx", NoDetail)
    /\ ev' = Event("ok2xx")
    /\ UNCHANGED <<appVars, page, platform, left, attrVars, footerVars,
                   joinPending, submitError, focused, taps, toastVars,
                   navVars, now>>

\* res.ok: success branch, then finally
Respond2xx(i) ==
    /\ inflight' = RemoveAt(inflight, i)
    /\ thankYou' = TRUE
    /\ successModal' = TRUE
    /\ tracked' = tracked \cup
          {Tracked(SubmitEvent(page), FormName(page), "ok2xx"),
           Tracked(ModalEvent(page), FormName(page), "ok2xx")}
    /\ SendGA4(2)
    /\ ResetForm
    /\ submitting' = FALSE
    /\ Received("ok2xx", NoDetail)
    /\ ev' = Event("ok2xx")
    /\ UNCHANGED <<appVars, page, platform, left, attrVars, footerVars,
                   joinPending, submitError, focused, taps, toastVars,
                   navVars, now>>

\* variant of the !res.ok branch that returns past the finally block
RespondNon2xx_EarlyReturn(i, d) ==
    /\ inflight' = RemoveAt(inflight, i)
    /\ IF page = "index"
       THEN /\ ShowToast(MSG_GENERIC)
            /\ UNCHANGED submitError
       ELSE /\ submitError' = DetailMessage(d)
            /\ ShowToast(DetailMessage(d))
    /\ submitting' = submitting
    /\ ev' = Event("non2xx")
    /\ Received("non2xx", d)
    /\ UNCHANGED <<appVars, page, platform, left, attrVars, footerVars,
                   trackVars, values, errors, joinPending, thankYou,
                   successModal, focused, taps, navVars, now>>

\* variant of the !res.ok branch that sets the inline error and shows no toast
RespondNon2xx_InlineOnly(i, d) ==
    /\ inflight' = RemoveAt(inflight, i)
    /\ submitError' = IF page = "index" THEN submitError ELSE DetailMessage(d)
    /\ submitting' = FALSE
    /\ ev' = Event("non2xx")
    /\ Received("non2xx", d)
    /\ UNCHANGED <<appVars, page, platform, left, attrVars, footerVars,
                   trackVars, values, errors, joinPending, thankYou,
                   successModal, focused, taps, toastVars, navVars, now>>

\* !res.ok: toast (and inline error on the referral form), then finally
RespondNon2xx(i, d) ==
    /\ inflight' = RemoveAt(inflight, i)
    /\ IF page = "index"
       THEN /\ ShowToast(MSG_GENERIC)
            /\ UNCHANGED submitError
       ELSE /\ submitError' = DetailMessage(d)
            /\ ShowToast(DetailMessage(d))
    /\ submitting' = FALSE
    /\ ev' = Event("non2xx")
    /\ Received("non2xx", d)
    /\ UNCHANGED <<appVars, page, platform, left, attrVars, footerVars,
                   trackVars, values, errors, joinPending, thankYou,
                   successModal, focused, taps, navVars, now>>

\* variant of the catch branch that also calls reset()
RespondError_Resets(i) ==
    /\ inflight' = RemoveAt(inflight, i)
    /\ ShowToast(MSG_GENERIC)
    /\ submitError' = IF page = "refer" THEN MSG_GENERIC ELSE submitError
    /\ ResetForm
    /\ submitting' = FALSE
    /\ ev' = Event("neterr")
    /\ Received("neterr", NoDetail)
    /\ UNCHANGED <<appVars, page, platform, left, attrVars, footerVars,
                   trackVars, joinPending, thankYou, successModal, focused,
                   taps, navVars, now>>

\* fetch rejects: catch, then finally
RespondError(i) ==
    /\ inflight' = RemoveAt(inflight, i)
    /\ ShowToast(MSG_GENERIC)
    /\ submitError' = IF page = "refer" THEN MSG_GENERIC ELSE submitError
    /\ submitting' = FALSE
    /\ ev' = Event("neterr")
    /\ Received("neterr", NoDetail)
    /\ UNCHANGED <<appVars, page, platform, left, attrVars, footerVars,
                   trackVars, values, errors, joinPending, thankYou,
                   successModal, focused, taps, navVars, now>>

Respond ==
    \E i \in 1..Len(inflight) :
        \/ Respond2xx(i)
        \/ \E d \in (IF page = "index" THEN {NoDetail} ELSE DetailKinds) :
              RespondNon2xx(i, d)
        \/ RespondError(i)

---------------------------------------------------------------------------
(* Toast auto-dismiss and success modal exits *)

\* variant of the timer callback that also hides the success modal
ToastTimeout_HidesModal ==
    /\ toastTimers # <<>>
    /\ toastTimers' = Tail(toastTimers)
    /\ toast' = NoToast
    /\ successModal' = FALSE
    /\ ev' = Event("toastTimeout")
    /\ NoFetchSettles
    /\ UNCHANGED <<appVars, page, platform, left, attrVars, footerVars,
                   trackVars, values, errors, joinPending, inflight,
                   submitting, thankYou, submitError, focused, taps, navVars,
                   now>>

\* the setTimeout callback of showToast, run whenever the event loop gets to
\* it after any delay
ToastTimeout ==
    /\ toastTimers # <<>>
    /\ toastTimers' = Tail(toastTimers)
    /\ toast' = NoToast
    /\ ev' = Event("toastTimeout")
    /\ NoFetchSettles
    /\ UNCHANGED <<appVars, page, platform, left, attrVars, footerVars,
                   trackVars, formVars, navVars, now>>

\* the success Modal is on screen: the index page stays mounted under the
\* screen pushed over it and its Modal shows above that screen; the referral
\* page is gone once replaced
ModalShown == successModal /\ (page = "refer" => ~left)

\* onRequestClose={() => setSuccessModal(false)}
ModalRequestClose ==
    /\ ModalShown
    /\ successModal' = FALSE
    /\ ev' = Event("modalClose")
    /\ NoFetchSettles
    /\ UNCHANGED <<appVars, page, platform, left, attrVars, footerVars,
                   trackVars, values, errors, joinPending, inflight,
                   submitting, thankYou, submitError, focused, taps,
                   toastVars, navVars, now>>

\* index "Back to Home": setSuccessModal(false); onTop()
ModalBackToTop ==
    /\ page = "index"
    /\ ModalShown
    /\ successModal' = FALSE
    /\ scroll' = {0}
    /\ ev' = Event("modalTop")
    /\ NoFetchSettles
    /\ UNCHANGED <<appVars, page, platform, left, attrVars, footerVars,
                   trackVars, values, errors, joinPending, inflight,
                   submitting, thankYou, submitError, focused, taps,
                   toastVars, sectionYs, navTimers, width, menuVisible, now>>

\* refer "Submit another referral": setSuccessModal(false); reset()
ModalSubmitAnother ==
    /\ page = "refer"
    /\ ModalShown
    /\ successModal' = FALSE
    /\ ResetForm
    /\ ev' = Event("modalAnother")
    /\ NoFetchSettles
    /\ UNCHANGED <<appVars, page, platform, left, attrVars, footerVars,
                   trackVars, joinPending, inflight, submitting, thankYou,
                   submitError, focused, taps, toastVars, navVars, now>>

\* index "Refer a Shop or Builder" in the modal: setSuccessModal(false);
\* router.push('/refer')
ModalRefer ==
    /\ page = "index"
    /\ ModalShown
    /\ successModal' = FALSE
    /\ left' = TRUE
    /\ ev' = Event("modalRefer")
    /\ NoFetchSettles
    /\ UNCHANGED <<appVars, page, platform, attrVars, footerVars, trackVars,
                   values, errors, joinPending, inflight, submitting,
                   thankYou, submitError, focused, taps, toastVars, navVars,
                   now>>

\* refer "Back to Home" in the modal: setSuccessModal(false); router.replace('/')
ModalBackHome ==
    /\ page = "refer"
    /\ ModalShown
    /\ successModal' = FALSE
    /\ left' = TRUE
    /\ ev' = Event("modalHome")
    /\ NoFetchSettles
    /\ UNCHANGED <<appVars, page, platform, attrVars, footerVars, trackVars,
                   values, errors, joinPending, inflight, submitting,
                   thankYou, submitError, focused, taps, toastVars, navVars,
                   now>>

\* leaving the page outside the modal: the hero "Refer a Shop or Builder"
\* button of the index page (router.push('/refer')), the "Back to Home" link
\* of the referral page (onBackHome: router.replace('/'))
NavigateAway ==
    /\ ~Blocked /\ ~left
    /\ left' = TRUE
    /\ ev' = Event("away")
    /\ NoFetchSettles
    /\ UNCHANGED <<appVars, page, platform, attrVars, footerVars, trackVars,
                   formVars, toastVars, navVars, now>>

---------------------------------------------------------------------------
(* The prototype app is not running while a landing page is *)

AppIdle ==
    /\ token = None
    /\ authHeader = None
    /\ route = "none"
    /\ effects = <<>>
    /\ issued = {}
    /\ loginPending = FALSE
    /\ parts = 0
    /\ linkedAtServer = 0
    /\ linkPosts = <<>>
    /\ partsGets = <<>>
    /\ sentIndexes = <<>>

---------------------------------------------------------------------------
(* The form pages *)

\* sectionYs once every section has reported its layout
LaidOut == [id \in SectionIds |-> LayoutY(id)]

\* the field values once the mount effects have run: the defaults, with the
\* role of the link prefilled on the index page
MountValues(p) ==
    IF p = "index" /\ PrefillRole(utm) # None
    THEN [DefaultValues(p) EXCEPT !.role = PrefillRole(utm)]
    ELSE DefaultValues(p)

\* the component state right after mount, apart from the form values:
\* every useState at its initial value, nothing pending, sections as in ys
FreshState(ys) ==
    /\ errors = {}
    /\ joinPending = <<>>
    /\ inflight = <<>>
    /\ submitting = FALSE
    /\ thankYou = FALSE
    /\ successModal = FALSE
    /\ submitError = "null"
    /\ toast = NoToast
    /\ toastTimers = <<>>
    /\ focused = "none"
    /\ taps = 0
    /\ sectionYs = ys
    /\ navTimers = <<>>
    /\ scroll = {}
    /\ menuVisible = FALSE
    /\ now = 0
    /\ ev = Event("mount")
    /\ left = FALSE
    /\ footerEmail = <<>>
    /\ footerInflight = <<>>
    /\ tracked = {}
    /\ gaPending = 0
    /\ resp = NoResponse

\* the state of page p right after mount, sections as in ys
Mounted(p, ys) ==
    /\ page = p
    /\ values = MountValues(p)
    /\ FreshState(ys)

\* the user starts on the form once the page has laid out
Init ==
    /\ platform \in {"web", "ios"}
    /\ gaConfigured = FALSE
    /\ AppIdle
    /\ width = 375
    /\ Loaded(DefaultUrl)
    /\ \E p \in {"index", "refer"} : Mounted(p, LaidOut)

Next ==
    \/ Edit
    \/ PressJoin
    \/ JoinResume
    \/ PressSubmit
    \/ Respond
    \/ ToastTimeout
    \/ ModalRequestClose
    \/ ModalBackToTop
    \/ ModalSubmitAnother
    \/ ModalRefer
    \/ ModalBackHome
    \/ NavigateAway

Spec == Init /\ [][Next]_vars


---------------------------------------------------------------------------
(* Footer micro-form (index page): FooterEmail and submitFooterEmail *)

MaxFooterPosts == 2

FooterInputs == {S_mail, S_spmail}

\* variant of the footer test with the pattern left unanchored
FooterPattern_Unanchored(s) == EmailPattern(s)

\* /^[^\s@]+@[^\s@]+\.[^\s@]+$/.test(s)
FooterPattern(s) ==
    \E i \in 2..Len(s) : \E j \in (i + 2)..(Len(s) - 1) :
        /\ s[i] = "@" /\ s[j] = "."
        /\ \A k \in (1..Len(s)) \ {i} : NotSpaceAt(s[k])

\* onChangeText={setEmail}
FooterEdit ==
    /\ page = "index"
    /\ ~Blocked /\ ~left
    /\ \E v \in FooterInputs : footerEmail # v /\ footerEmail' = v
    /\ ev' = Event("footerEdit")
    /\ NoFetchSettles
    /\ UNCHANGED <<appVars, page, platform, left, attrVars, footerInflight,
                   trackVars, formVars, toastVars, navVars, now>>

\* the body of the footer POST
FooterBody(email) ==
    JsonStringify([name         |-> email,
                   email        |-> email,
                   role         |-> "Subscriber",
                   source_url   |-> utm.source_url,
                   utm_source   |-> utm.utm_source,
                   utm_campaign |-> utm.utm_campaign,
                   utm_medium   |-> utm.utm_medium])

\* the footer button: onPress={() => onSubmit(email)}; submitFooterEmail up to
\* `await fetch(...)`
PressFooter ==
    /\ page = "index"
    /\ ~Blocked /\ ~left
    /\ IF footerEmail = <<>> \/ ~FooterPattern(footerEmail)
       THEN /\ ev' = Event("footerRejected")
            /\ UNCHANGED footerInflight
       ELSE /\ Len(footerInflight) < MaxFooterPosts
            /\ footerInflight' = Append(footerInflight,
                   [email |-> footerEmail, body |-> FooterBody(footerEmail)])
            /\ ev' = Event("footerSent")
    /\ NoFetchSettles
    /\ UNCHANGED <<appVars, page, platform, left, attrVars, footerEmail,
                   trackVars, formVars, toastVars, navVars, now>>

\* fetch resolves, with any status: res is not looked at
FooterResolves(i, kind) ==
    /\ footerInflight' = RemoveAt(footerInflight, i)
    /\ tracked' = tracked \cup {Tracked("waitlist_submit", "footer", kind)}
    /\ SendGA4(1)
    /\ Received(kind, NoDetail)
    /\ ev' = Event("footerResolved")
    /\ UNCHANGED <<appVars, page, platform, left, attrVars, footerEmail,
                   formVars, toastVars, navVars, now>>

\* fetch rejects: catch (console.error and a haptic)
FooterRejects(i) ==
    /\ footerInflight' = RemoveAt(footerInflight, i)
    /\ Received("neterr", NoDetail)
    /\ ev' = Event("footerFailed")
    /\ UNCHANGED <<appVars, page, platform, left, attrVars, footerEmail,
                   trackVars, formVars, toastVars, navVars, now>>

FooterRespond ==
    \E i \in 1..Len(footerInflight) :
        \/ \E kind \in {"ok2xx", "non2xx"} : FooterResolves(i, kind)
        \/ FooterRejects(i)

---------------------------------------------------------------------------
(* Outbound writes of the index page over the URLs it can be loaded at *)

\* one acceptable value per required field
ValidInput(f) ==
    CASE f = "name" -> S_Al
      [] f = "email" -> S_mail
      [] f = "role" -> "Enthusiast"
      [] f \in {"referrer_name", "referral_name"} -> S_Al
      [] f = "referrer_email" -> S_mail
      [] f = "referral_type" -> "Shop"

FillIn ==
    /\ page = "index"
    /\ \E f \in {"name", "email", "role"} : SetField(f, ValidInput(f))

InitWrites ==
    /\ platform \in {"web", "ios"}
    /\ gaConfigured = FALSE
    /\ AppIdle
    /\ width = 375
    /\ \E loc \in (IF platform = "web" THEN Urls ELSE {DefaultUrl}) : Loaded(loc)
    /\ Mounted("index", LaidOut)

NextWrites ==
    \/ FillIn
    \/ PressJoin
    \/ JoinResume
    \/ Respond
    \/ FooterEdit
    \/ PressFooter
    \/ FooterRespond
    \/ ModalRequestClose
    \/ NavigateAway

SpecWrites == InitWrites /\ [][NextWrites]_vars

---------------------------------------------------------------------------
(* The referral handler over the values it can be handed: the type selector *)
(* offers Shop and Builder only, submit() itself tests for any other value  *)

\* a referral_type that is neither of the two the selector offers
OtherType == "Dealer"

\* form values that pass handleSubmit's validation, of every referral type
SubmitInputs ==
    {[referrer_name |-> S_Al, referrer_email |-> S_mail, referral_type |-> t,
      referral_name |-> S_Al, referral_contact |-> S_empty, notes |-> n,
      hp |-> h] : t \in {"Shop", "Builder", OtherType},
                  n \in {S_empty} \cup TextInputs,
                  h \in {S_empty} \cup HpInputs}

InitSubmit ==
    /\ platform \in {"web", "ios"}
    /\ gaConfigured = FALSE
    /\ AppIdle
    /\ width = 375
    /\ Loaded(DefaultUrl)
    /\ page = "refer"
    /\ values \in SubmitInputs
    /\ FreshState(LaidOut)

NextSubmit ==
    \/ PressSubmit
    \/ Respond
    \/ ToastTimeout
    \/ ModalRequestClose
    \/ ModalSubmitAnother

SpecSubmit == InitSubmit /\ [][NextSubmit]_vars

---------------------------------------------------------------------------
(* Analytics: the requests sendGA4 makes, with and without configuration *)

\* the awaited analytics fetch resolves: sendGA4 returns
GaCompletes ==
    /\ gaPending > 0
    /\ gaPending' = gaPending - 1
    /\ ev' = Event("gaDone")
    /\ NoFetchSettles
    /\ UNCHANGED <<appVars, page, platform, left, attrVars, footerVars,
                   tracked, gaConfigured, formVars, toastVars, navVars, now>>

\* the awaited analytics fetch rejects: sendGA4's catch logs a warning
GaFails ==
    /\ gaPending > 0
    /\ gaPending' = gaPending - 1
    /\ ev' = Event("gaFailed")
    /\ NoFetchSettles
    /\ UNCHANGED <<appVars, page, platform, left, attrVars, footerVars,
                   tracked, gaConfigured, formVars, toastVars, navVars, now>>

FillAny ==
    \E f \in Fields(page) \ {"hp", "referral_contact", "notes"} :
        SetField(f, ValidInput(f))

InitTrack ==
    /\ platform \in {"web", "ios"}
    /\ gaConfigured \in BOOLEAN
    /\ AppIdle
    /\ width = 375
    /\ Loaded(DefaultUrl)
    /\ \E p \in {"index", "refer"} : Mounted(p, LaidOut)

\* an analytics request that never completes is one for which neither
\* GaCompletes nor GaFails is taken
NextTrack ==
    \/ FillAny
    \/ PressJoin
    \/ JoinResume
    \/ PressSubmit
    \/ Respond
    \/ ModalRequestClose
    \/ GaCompletes
    \/ GaFails

SpecTrack == InitTrack /\ [][NextTrack]_vars

---------------------------------------------------------------------------
(* The launch redirect route go/launch and the landing page it leads to *)

LaunchRoute == Url("https://buildboard.app/go/launch", <<>>)

\* '/' + qs with qs = '?utm_source=ig&utm_campaign=launch&utm_medium=social'
LaunchUrl ==
    Url(WebOrigin, [k \in UtmKeys |->
                       CASE k = "utm_source" -> "ig"
                         [] k = "utm_campaign" -> "launch"
                         [] k = "utm_medium" -> "social"])

\* LaunchRedirect's effect: window.location.replace on web, router.replace
\* elsewhere; the Index component then mounts and runs useUTM()
LaunchRedirect ==
    /\ page = "launch"
    /\ page' = "index"
    /\ location' = LaunchUrl
    /\ utm' = UseUTM(platform, LaunchUrl)
    /\ values' = IF PrefillRole(utm') # None
                 THEN [DefaultValues("index") EXCEPT !.role = PrefillRole(utm')]
                 ELSE DefaultValues("index")
    /\ ev' = Event("mount")
    /\ NoFetchSettles
    /\ UNCHANGED <<appVars, platform, left, footerVars, trackVars, errors,
                   joinPending, inflight, submitting, thankYou, successModal,
                   submitError, focused, taps, toastVars, navVars, now>>

\* the launch route is open, nothing of the landing page exists yet
InitLaunch ==
    /\ platform \in {"web", "ios"}
    /\ gaConfigured = FALSE
    /\ AppIdle
    /\ width = 375
    /\ Loaded(LaunchRoute)
    /\ page = "launch"
    /\ values = DefaultValues("index")
    /\ FreshState(LaidOut)

NextLaunch ==
    \/ LaunchRedirect
    \/ FillIn
    \/ PressJoin
    \/ JoinResume
    \/ Respond
    \/ FooterEdit
    \/ PressFooter
    \/ FooterRespond
    \/ ModalRequestClose

SpecLaunch == InitLaunch /\ [][NextLaunch]_vars

---------------------------------------------------------------------------
(* Prototype app: the session (App.js useAuth, api / setAuthToken)           *)
(*                                                                           *)
(* React runs the passive effects of a commit children first: the effect of  *)
(* the page a route renders runs before the effect of useAuth in App.  axios *)
(* merges api.defaults.headers into a request when the request is made.      *)

Tokens == {"t1", "t2"}

\* the routes of <Routes>: /browse, /login, /dashboard
Routes == {"browse", "login", "dashboard"}
Protected == {"dashboard"}

\* the landing page has not been mounted: the prototype app is what runs
LandingIdle ==
    /\ platform = "web"
    /\ gaConfigured = FALSE
    /\ width = 375
    /\ Loaded(DefaultUrl)
    /\ page = "app"
    /\ values = DefaultValues("index")
    /\ FreshState(LaidOut)

\* RequireAuth: without a user a protected route renders <Navigate to="/login">
\* (bb_user is stored and removed together with bb_token)
RequireAuth(r, t) == IF r \in Protected /\ t = None THEN "login" ELSE r

\* the request the mount effect of the page of route r makes
PagePath(r) ==
    CASE r = "browse" -> "/builds"
      [] r = "dashboard" -> "/shops/mine"

\* the mount effect of the page of route r, if it has one that makes a request
PageEffects(r) == IF r = "login" THEN <<>> ELSE <<r>>

\* setAuthToken(t): sets the default header for a token, deletes it otherwise
SetAuthToken(t) == authHeader' = t

\* api.get / api.post: the request goes out with the default headers of now
Request(path) ==
    issued' = issued \cup {[path |-> path, auth |-> authHeader, stored |-> token]}

\* the next pending effect runs: a page's mount effect makes its request,
\* useAuth's effect calls setAuthToken(token)
RunEffect ==
    /\ effects # <<>>
    /\ effects' = Tail(effects)
    /\ IF Head(effects) = "useAuth"
       THEN /\ SetAuthToken(token)
            /\ UNCHANGED issued
       ELSE /\ Request(PagePath(Head(effects)))
            /\ UNCHANGED authHeader
    /\ UNCHANGED <<landingVars, editorVars, token, route, loginPending>>

\* a TopNav link: Browse always, Dashboard with a user, Login without
FollowLink ==
    /\ effects = <<>>
    /\ \E r \in Routes \ {route} :
          /\ r = "dashboard" => token # None
          /\ r = "login" => token = None
          /\ route' = r
          /\ effects' = PageEffects(r)
    /\ UNCHANGED <<landingVars, editorVars, token, authHeader, issued,
                   loginPending>>

\* Browse: the Search button calls load()
BrowseSearch ==
    /\ effects = <<>>
    /\ route = "browse"
    /\ Request("/builds")
    /\ UNCHANGED <<landingVars, editorVars, token, authHeader, route, effects,
                   loginPending>>

\* Login.submit up to `await api.post('/auth/login', ...)`
LoginSubmit ==
    /\ effects = <<>>
    /\ route = "login"
    /\ ~loginPending
    /\ Request("/auth/login")
    /\ loginPending' = TRUE
    /\ UNCHANGED <<landingVars, editorVars, token, authHeader, route,
                   effects>>

\* the login response: onLogin(access_token, user) stores the token, sets the
\* state and the header; nav('/dashboard') mounts Dashboard, and useAuth's
\* effect runs again because token changed
LoginOk ==
    /\ loginPending
    /\ route = "login"
    /\ \E t \in Tokens :
          /\ token' = t
          /\ SetAuthToken(t)
    /\ route' = "dashboard"
    /\ effects' = PageEffects("dashboard") \o <<"useAuth">>
    /\ loginPending' = FALSE
    /\ UNCHANGED <<landingVars, editorVars, issued>>

\* the login request fails: setError
LoginFails ==
    /\ loginPending
    /\ loginPending' = FALSE
    /\ UNCHANGED <<landingVars, editorVars, token, authHeader, route, effects,
                   issued>>

\* logout(): removes the stored token and user, clears the state and the
\* header; a protected route then redirects to /login
Logout ==
    /\ effects = <<>>
    /\ token # None
    /\ token' = None
    /\ SetAuthToken(None)
    /\ route' = RequireAuth(route, None)
    /\ effects' = <<"useAuth">>
    /\ UNCHANGED <<landingVars, editorVars, issued, loginPending>>

\* the app is loaded at a route with or without a token in local storage: the
\* first commit is done and its effects are about to run
InitAuth ==
    /\ LandingIdle
    /\ token \in {None} \cup Tokens
    /\ authHeader = None
    /\ \E r \in Routes :
          /\ route = RequireAuth(r, token)
          /\ effects = PageEffects(route) \o <<"useAuth">>
    /\ issued = {}
    /\ loginPending = FALSE
    /\ parts = 0
    /\ linkedAtServer = 0
    /\ linkPosts = <<>>
    /\ partsGets = <<>>
    /\ sentIndexes = <<>>

NextAuth ==
    \/ RunEffect
    \/ FollowLink
    \/ BrowseSearch
    \/ LoginSubmit
    \/ LoginOk
    \/ LoginFails
    \/ Logout

SpecAuth == InitAuth /\ [][NextAuth]_vars

---------------------------------------------------------------------------
(* Prototype app: BuildEditor's linkPart on /editor/:id *)

MaxLinks == 2
MaxLinked == 1

\* the server has not yet answered
Unanswered == -1

\* the Add button of a search result: linkPart(partId) up to its first await;
\* orderIndex is parts.length of the render the handler belongs to
LinkPart ==
    /\ Len(sentIndexes) < MaxLinks
    /\ linkPosts' = Append(linkPosts, [orderIndex |-> parts, handled |-> FALSE])
    /\ sentIndexes' = Append(sentIndexes,
                             [orderIndex |-> parts, linked |-> linkedAtServer])
    /\ UNCHANGED <<landingVars, authVars, parts, linkedAtServer, partsGets>>

\* the server handles a link POST: one more part is linked to the build
ServerLinks ==
    \E i \in 1..Len(linkPosts) :
        /\ ~linkPosts[i].handled
        /\ linkPosts' = [linkPosts EXCEPT ![i].handled = TRUE]
        /\ linkedAtServer' = linkedAtServer + 1
        /\ UNCHANGED <<landingVars, authVars, parts, partsGets, sentIndexes>>

\* the POST's response arrives: linkPart goes on to `await api.get(.../parts)`
LinkResumes ==
    \E i \in 1..Len(linkPosts) :
        /\ linkPosts[i].handled
        /\ linkPosts' = RemoveAt(linkPosts, i)
        /\ partsGets' = Append(partsGets, Unanswered)
        /\ UNCHANGED <<landingVars, authVars, parts, linkedAtServer,
                       sentIndexes>>

\* the server answers a parts GET with the parts linked at that moment
ServerLists ==
    \E i \in 1..Len(partsGets) :
        /\ partsGets[i] = Unanswered
        /\ partsGets' = [partsGets EXCEPT ![i] = linkedAtServer]
        /\ UNCHANGED <<landingVars, authVars, parts, linkedAtServer,
                       linkPosts, sentIndexes>>

\* the GET's response arrives: setParts(data.items || [])
PartsLoaded ==
    \E i \in 1..Len(partsGets) :
        /\ partsGets[i] # Unanswered
        /\ parts' = partsGets[i]
        /\ partsGets' = RemoveAt(partsGets, i)
        /\ UNCHANGED <<landingVars, authVars, linkedAtServer, linkPosts,
                       sentIndexes>>

\* the editor of an existing build has mounted with a session: parts is [] and
\* the mount effect's GET of the build's parts is on its way
InitEditor ==
    /\ LandingIdle
    /\ token \in Tokens
    /\ authHeader = token
    /\ route = "editor"
    /\ effects = <<>>
    /\ issued = {}
    /\ loginPending = FALSE
    /\ parts = 0
    /\ linkedAtServer \in 0..MaxLinked
    /\ linkPosts = <<>>
    /\ partsGets = <<Unanswered>>
    /\ sentIndexes = <<>>

NextEditor ==
    \/ LinkPart
    \/ ServerLinks
    \/ LinkResumes
    \/ ServerLists
    \/ PartsLoaded

SpecEditor == InitEditor /\ [][NextEditor]_vars

---------------------------------------------------------------------------
(* Time: timers run when due; the clock moves in steps of the shortest delay *)

TICK_MS == RETRY_MS

MaxNavTicks == 2
MaxToastTicks == 12
MaxNavTimers == 2
MaxToastTimers == 2

NothingDue ==
    /\ \A i \in 1..Len(navTimers) : navTimers[i].due > now
    /\ \A i \in 1..Len(toastTimers) : toastTimers[i] > now

Tick(limit) ==
    /\ now < limit * TICK_MS
    /\ NothingDue
    /\ now' = now + TICK_MS
    /\ ev' = Event("tick")
    /\ NoFetchSettles
    /\ UNCHANGED <<appVars, page, platform, left, attrVars, footerVars,
                   trackVars, formVars, toastVars, navVars>>

---------------------------------------------------------------------------
(* Index page: section registry, navigation controls, retry timer *)

targetIds == TargetIds

\* navReady = Platform.OS === 'web' ? true : targetIds.every(id => sectionYs[id] != null)
navReady == platform = "web" \/ \A id \in targetIds : id \in DOMAIN sectionYs

isMobileSmall == width <= 390

\* variant of onLayoutSection that drops the spread of prev
OnLayoutSection_Replace(id) ==
    /\ page = "index"
    /\ Lookup(sectionYs, id) # {LayoutY(id)}
    /\ sectionYs' = [x \in {id} |-> LayoutY(id)]
    /\ ev' = Event("layout")
    /\ NoFetchSettles
    /\ UNCHANGED <<appVars, page, platform, left, attrVars, footerVars,
                   trackVars, formVars, toastVars, navTimers, scroll, width,
                   menuVisible, now>>

\* onLayoutSection(id, y): setSectionYs(prev => ({ ...prev, [id]: y }))
OnLayoutSection(id) ==
    /\ page = "index"
    /\ Lookup(sectionYs, id) # {LayoutY(id)}
    /\ sectionYs' = [x \in DOMAIN sectionYs \cup {id} |->
                        IF x = id THEN LayoutY(id) ELSE sectionYs[x]]
    /\ ev' = Event("layout")
    /\ NoFetchSettles
    /\ UNCHANGED <<appVars, page, platform, left, attrVars, footerVars,
                   trackVars, formVars, toastVars, navTimers, scroll, width,
                   menuVisible, now>>

\* Dimensions 'change' listener: setWidth(...); setSectionYs({}); the
\* setTimeout(() => {}, 250) it starts does nothing
DimensionsChange ==
    /\ page = "index"
    /\ \E w \in Widths \ {width} : width' = w
    /\ sectionYs' = <<>>
    /\ ev' = Event("resize")
    /\ NoFetchSettles
    /\ UNCHANGED <<appVars, page, platform, left, attrVars, footerVars,
                   trackVars, formVars, toastVars, navTimers, scroll,
                   menuVisible, now>>

\* an overlay (menu sheet or success modal) covers the page's controls
Covered == menuVisible \/ successModal

\* Header links and buttons: disabled={!navReady}
HeaderNav ==
    /\ page = "index"
    /\ ~Covered
    /\ navReady
    /\ Len(navTimers) < MaxNavTimers
    /\ \E id \in (IF isMobileSmall THEN {"Signup"} ELSE targetIds) : OnNav(id)
    /\ ev' = Event("nav")
    /\ NoFetchSettles
    /\ UNCHANGED <<appVars, page, platform, left, attrVars, footerVars,
                   trackVars, formVars, toastVars, menuVisible, now>>

\* hero call-to-action: onPress={() => onNav('Signup')}
HeroNav ==
    /\ page = "index"
    /\ ~Covered
    /\ Len(navTimers) < MaxNavTimers
    /\ OnNav("Signup")
    /\ ev' = Event("nav")
    /\ NoFetchSettles
    /\ UNCHANGED <<appVars, page, platform, left, attrVars, footerVars,
                   trackVars, formVars, toastVars, menuVisible, now>>

\* hamburger of the small mobile header: onOpenMenu
OpenMenu ==
    /\ page = "index"
    /\ isMobileSmall
    /\ ~Covered
    /\ menuVisible' = TRUE
    /\ ev' = Event("menu")
    /\ NoFetchSettles
    /\ UNCHANGED <<appVars, page, platform, left, attrVars, footerVars,
                   trackVars, formVars, toastVars, sectionYs, navTimers,
                   scroll, width, now>>

\* menu item: setMenuVisible(false); onNav(id)
MenuNav ==
    /\ page = "index"
    /\ menuVisible
    /\ Len(navTimers) < MaxNavTimers
    /\ menuVisible' = FALSE
    /\ \E id \in targetIds : OnNav(id)
    /\ ev' = Event("nav")
    /\ NoFetchSettles
    /\ UNCHANGED <<appVars, page, platform, left, attrVars, footerVars,
                   trackVars, formVars, toastVars, now>>

\* menu backdrop / onRequestClose: setMenuVisible(false)
CloseMenu ==
    /\ page = "index"
    /\ menuVisible
    /\ menuVisible' = FALSE
    /\ ev' = Event("menu")
    /\ NoFetchSettles
    /\ UNCHANGED <<appVars, page, platform, left, attrVars, footerVars,
                   trackVars, formVars, toastVars, sectionYs, navTimers,
                   scroll, width, now>>

\* onTop: scroll to 0
OnTop ==
    /\ page = "index"
    /\ ~Covered
    /\ scroll # {0}
    /\ scroll' = {0}
    /\ ev' = Event("top")
    /\ NoFetchSettles
    /\ UNCHANGED <<appVars, page, platform, left, attrVars, footerVars,
                   trackVars, formVars, toastVars, sectionYs, navTimers,
                   width, menuVisible, now>>

\* the retry callback of onNav, 250 ms after it was scheduled
NavRetryFires ==
    /\ navTimers # <<>>
    /\ Head(navTimers).due <= now
    /\ navTimers' = Tail(navTimers)
    /\ scroll' = IF Head(navTimers).y2 # {}
                 THEN {ScrollTarget(y) : y \in Head(navTimers).y2}
                 ELSE scroll
    /\ ev' = Event("retry")
    /\ NoFetchSettles
    /\ UNCHANGED <<appVars, page, platform, left, attrVars, footerVars,
                   trackVars, formVars, toastVars, sectionYs, width,
                   menuVisible, now>>

NavTick == Tick(MaxNavTicks)

\* the sections whose layout reports are followed: every navigation target
\* and Hero; the entries of Product and Footer are never read
Reporting == targetIds \cup {"Hero"}

InitNav ==
    /\ platform \in {"web", "ios"}
    /\ gaConfigured = FALSE
    /\ AppIdle
    /\ width \in Widths
    /\ Loaded(DefaultUrl)
    /\ Mounted("index", <<>>)

NextNav ==
    \/ \E id \in Reporting : OnLayoutSection(id)
    \/ DimensionsChange
    \/ HeaderNav
    \/ HeroNav
    \/ OpenMenu
    \/ MenuNav
    \/ CloseMenu
    \/ OnTop
    \/ NavRetryFires
    \/ NavTick

SpecNav == InitNav /\ [][NextNav]_vars

---------------------------------------------------------------------------
(* Toasts against the clock *)

PageToasts(p) ==
    IF p = "index" THEN {MSG_GENERIC, MSG_CORRECT}
    ELSE {MSG_GENERIC, MSG_DETAIL, MSG_JSON}

\* a handler reaches showToast(msg)
ToastCall ==
    /\ Len(toastTimers) < MaxToastTimers
    /\ \E msg \in PageToasts(page) : ShowToast(msg)
    /\ ev' = Event("toast")
    /\ NoFetchSettles
    /\ UNCHANGED <<appVars, page, platform, left, attrVars, footerVars,
                   trackVars, formVars, navVars, now>>

\* the setTimeout callback of showToast, 2500 ms after the call
ToastTimerFires ==
    /\ toastTimers # <<>>
    /\ Head(toastTimers) <= now
    /\ ToastTimeout

ToastTick == Tick(MaxToastTicks)

InitToast ==
    /\ platform = "ios"
    /\ gaConfigured = FALSE
    /\ AppIdle
    /\ width = 375
    /\ Loaded(DefaultUrl)
    /\ \E p \in {"index", "refer"} : Mounted(p, LaidOut)

NextToast ==
    \/ ToastCall
    \/ ToastTimerFires
    \/ ToastTick

SpecToast == InitToast /\ [][NextToast]_vars


---------------------------------------------------------------------------
(* Properties *)

\* a submit intent reaches the point where the form's handler would read the
\* current values: onPressJoin resumes after trigger(), or the referral Submit
\* button is pressed
HandlerCalled ==
    \/ page = "index" /\ Len(joinPending') < Len(joinPending)
    \/ page = "refer" /\ taps' = taps + 1

\* some character of s is not whitespace
HasVisibleChar(s) == \E i \in 1..Len(s) : s[i] # " "

\* a request of the form completes in this step
RequestCompletes == Len(inflight') < Len(inflight)

FailureKinds == {"non2xx", "neterr"}

\* C1: a submit handler called while the honeypot holds a non-whitespace
\* character issues no request and leaves submitting as it is (false), whatever
\* the other fields hold
C1_HoneypotShortCircuits ==
    [][(HandlerCalled /\ HasVisibleChar(values.hp))
        => (inflight' = inflight /\ submitting' = submitting
            /\ (Len(inflight) = 0 => ~submitting'))]_vars

C1_Witness ==
    /\ ev = "dropped"
    /\ HasVisibleChar(values.hp)
    /\ inflight = <<>>
    /\ ~submitting

\* C2: at most one POST of the form is outstanding at any time
C2_AtMostOneInFlight == Len(inflight) <= 1

\* C3: the step in which a request completes (2xx, non-2xx or transport
\* error) ends with submitting false, and submitting is never true with no
\* request outstanding
C3_SubmittingCleared ==
    /\ [][RequestCompletes => ~submitting']_vars
    /\ [](inflight = <<>> => ~submitting)

C3_Witness ==
    /\ ev \in FailureKinds \cup {"ok2xx"}
    /\ inflight = <<>>
    /\ ~submitting

\* C4: a 2xx response resets the values to the defaults, shows the success
\* modal and leaves the form not submitting
C4_SuccessResets ==
    [][(RequestCompletes /\ ev' = "ok2xx")
        => (/\ values' = DefaultValues(page)
            /\ \A f \in Fields(page) \ {"role", "referral_type"} : values'[f] = <<>>
            /\ successModal'
            /\ ~submitting')]_vars

C4_Witness ==
    /\ ev = "ok2xx"
    /\ successModal
    /\ values = DefaultValues(page)
    /\ ~submitting

\* C5: a non-2xx response or transport error leaves every field value as it
\* was, and only a 2xx response takes filled-in values back to the defaults
C5_FailureKeepsValues ==
    /\ [][(RequestCompletes /\ ev' \in FailureKinds) => values' = values]_vars
    /\ [][(values # DefaultValues(page) /\ values' = DefaultValues(page))
            => ev' = "ok2xx"]_vars

C5_Witness ==
    /\ ev \in FailureKinds
    /\ IsValid(page, values)
    /\ inflight = <<>>

\* C6: a non-2xx response or transport error leaves a toast message set when
\* its handler finishes
C6_FailureToasts ==
    [][(RequestCompletes /\ ev' \in FailureKinds) => toast' # NoToast]_vars

C6_Witness ==
    /\ ev = "neterr"
    /\ toast = MSG_GENERIC
    /\ toastTimers # <<>>

\* s has an @ after its first character and a dot later on, with characters
\* in between and after
LocalAtDomainTld(s) ==
    \E i \in 2..Len(s) : \E j \in (i + 2)..(Len(s) - 1) : s[i] = "@" /\ s[j] = "."

\* C7: onPressJoin issues a request only if the name has at least 2
\* characters, the email has the local@domain.tld shape and a role is
\* selected; an email without that shape gets an email error
C7_WaitlistValidationGate ==
    [][(page = "index" /\ Len(joinPending') < Len(joinPending))
        => /\ (inflight' # inflight
                  => /\ Len(values.name) >= 2
                     /\ LocalAtDomainTld(values.email)
                     /\ values.role # None)
           /\ (~LocalAtDomainTld(values.email)
                  => "email" \in errors' /\ inflight' = inflight)]_vars

C7_Witness ==
    /\ page = "index"
    /\ ev = "invalid"
    /\ values.name = S_A /\ values.email = S_bad /\ values.role = "Enthusiast"
    /\ "email" \in errors
    /\ inflight = <<>>

\* C8: on a non-web platform a retry that fires when its section has an
\* offset y scrolls to max(0, y - 88), and one that finds none scrolls nothing
\* and schedules nothing
C8_RetryUsesReportedOffset ==
    [][(platform # "web" /\ Len(navTimers') < Len(navTimers))
        => /\ navTimers' = Tail(navTimers)
           /\ IF Head(navTimers).id \in DOMAIN sectionYs
              THEN scroll' = {Max0(sectionYs[Head(navTimers).id] - 88)}
              ELSE scroll' = scroll]_vars

\* C9: at most one navigation retry is pending at any time
C9_OneRetryPending == Len(navTimers) <= 1

\* C10: while less than 2.5 s have passed since the latest showToast call, a
\* toast is visible
C10_ToastStaysVisible ==
    (toastTimers # <<>> /\ now < toastTimers[Len(toastTimers)]) => toast # NoToast

ModalExits == {"modalClose", "modalTop", "modalAnother", "modalRefer", "modalHome"}

\* C11: a step that hides the visible success modal is one of its exit
\* actions (a button of the modal or the platform close request); responses,
\* timers, toast dismissals and form events leave it visible
C11_ModalHiddenOnlyByExit ==
    [][(successModal /\ ~successModal') => ev' \in ModalExits]_vars

C11_Witness ==
    /\ successModal
    /\ ev = "toastTimeout"
    /\ thankYou

\* the bodies of the writes outstanding: waitlist form, then footer
Bodies ==
    {inflight[i].body : i \in 1..Len(inflight)}
        \cup {footerInflight[i].body : i \in 1..Len(footerInflight)}

\* C12: on web, a waitlist write carries each utm key exactly when the query
\* of the URL the page was loaded at gives it a non-empty value, and with that
\* value; it carries no null and no empty string for it; source_url is that URL
C12_UtmInBody ==
    platform = "web" =>
        \A i \in 1..Len(inflight) :
            LET body == inflight[i].body
            IN  /\ \A k \in UtmKeys :
                      /\ k \in DOMAIN body <=>
                            (k \in DOMAIN location.query /\ location.query[k] # "")
                      /\ k \in DOMAIN body =>
                            /\ body[k] = location.query[k]
                            /\ body[k] \notin {"", "null", "undefined"}
                /\ "source_url" \in DOMAIN body
                /\ body.source_url = location

C12_Witness ==
    /\ platform = "web"
    /\ inflight # <<>>
    /\ location = DefaultUrl
    /\ DOMAIN inflight[1].body \cap UtmKeys = {"utm_source"}

\* the attribution fields of a body that are present
Attribution(body) ==
    [k \in DOMAIN body \cap (UtmKeys \cup {"source_url"}) |-> body[k]]

\* C13: any two writes outstanding together, from the waitlist form or the
\* footer form, carry the same attribution, which is the one computed at mount
C13_AttributionFixed ==
    /\ utm = UseUTM(platform, location)
    /\ \A a, b \in Bodies : Attribution(a) = Attribution(b)
    /\ \A a \in Bodies :
          /\ a.source_url = utm.source_url
          /\ \A k \in UtmKeys :
                IF k \in DOMAIN a THEN a[k] = utm[k] ELSE utm[k] = None

C13_Witness ==
    /\ left
    /\ platform = "web"
    /\ Len(inflight) = 2
    /\ footerInflight # <<>>
    /\ ev = "sent"

\* C14: on a non-web platform, while the offset of some navigation target is
\* unknown, no control that calls onNav can be pressed: not the header links,
\* not the hero call-to-action, not the items of the mobile menu
C14_NavDisabledUntilReady ==
    (platform # "web" /\ ~navReady)
        => (~ENABLED HeaderNav /\ ~ENABLED HeroNav /\ ~ENABLED MenuNav)

\* C15: a step either clears the whole offset map (a viewport change) or keeps
\* every recorded entry, changing or adding at most the entry of the one
\* section that reports; after a clear every offset is absent
C15_OffsetsNeverDroppedSingly ==
    [][\/ (ev' = "resize" /\ sectionYs' = <<>>)
       \/ /\ ev' # "resize"
          /\ DOMAIN sectionYs \subseteq DOMAIN sectionYs'
          /\ \E id \in SectionIds :
                /\ DOMAIN sectionYs' \subseteq DOMAIN sectionYs \cup {id}
                /\ \A j \in DOMAIN sectionYs \ {id} : sectionYs'[j] = sectionYs[j]]_vars

C15_Witness ==
    /\ ev = "layout"
    /\ Cardinality(DOMAIN sectionYs) = 3
    /\ width = 1024
    /\ now > 0

C17_OneFooterPost == Len(footerInflight) <= 1

\* a footer request completes in this step
FooterCompletes == Len(footerInflight') < Len(footerInflight)

\* C18: a footer submission answered with a non-2xx status, or failed in
\* transport, leaves a toast set and is not tracked as a submission
C18_FooterFailureSurfaced ==
    [][(FooterCompletes /\ resp'.kind \in FailureKinds)
        => (toast' # NoToast /\ tracked' = tracked)]_vars

\* C19: a submit intent made with the honeypot filled changes nothing the
\* submitter can see: toast, field errors, focus, scroll position, modal,
\* submitting indicator and field values are as before
C19_HoneypotUnobservable ==
    [][(HandlerCalled /\ HasVisibleChar(values.hp))
        => UNCHANGED <<toast, errors, focused, scroll, successModal, submitting,
                       values>>]_vars

\* the referral endpoint answers non-2xx in this step
ReferralRefused == page = "refer" /\ RequestCompletes /\ resp'.kind = "non2xx"

\* C20 as stated: the toast and the inline error are the detail verbatim if it
\* is a string, its JSON text if it is structured, the generic message if the
\* body has no detail or cannot be parsed
C20_DetailVerbatim ==
    [][ReferralRefused =>
        LET d   == resp'.detail
            msg == IF d.t = "string" THEN d.s
                   ELSE IF d.t = "object" THEN d.s
                   ELSE MSG_GENERIC
        IN  d.t # "number" => (toast' = msg /\ submitError' = msg)]_vars

\* C20, amended: the toast and the inline error are the detail verbatim if it
\* is a non-empty string, its JSON text if it is an object or another truthy
\* value, and the generic message if the body has no detail, a falsy detail
\* (empty string, 0) or cannot be parsed
C20_DetailIfTruthy ==
    [][ReferralRefused =>
        LET d   == resp'.detail
            msg == IF d.t = "string" /\ d.s # "" THEN d.s
                   ELSE IF d.t = "object" \/ (d.t = "number" /\ d.s # "0") THEN d.s
                   ELSE MSG_GENERIC
        IN  toast' = msg /\ submitError' = msg]_vars

C20_Witness ==
    /\ page = "refer"
    /\ resp = [kind |-> "non2xx", detail |-> Detail("object", MSG_JSON)]
    /\ toast = MSG_JSON
    /\ submitError = MSG_JSON

\* C21: every referral POST body has referral_type Shop or Builder; a submit
\* handed any other referral_type sends nothing, sets the inline error
\* message and leaves the values, the submitting flag and the modal as they
\* were
C21_ReferralTypeGate ==
    [][page = "refer" =>
         /\ \A i \in 1..Len(inflight') :
               inflight'[i].body.referral_type \in {"Shop", "Builder"}
         /\ (HandlerCalled /\ ~HoneypotFilled(values)
               /\ values.referral_type \notin {"Shop", "Builder"})
              => /\ inflight' = inflight
                 /\ submitError' = MSG_TYPE
                 /\ values' = values
                 /\ submitting' = submitting
                 /\ successModal' = successModal]_vars

\* a submit with another referral type was refused with the inline message
C21_Witness ==
    /\ page = "refer"
    /\ ev = "badtype"
    /\ values.referral_type = OtherType
    /\ submitError = MSG_TYPE
    /\ inflight = <<>>

\* local@domain.tld from the first character to the last, no whitespace
FullShape(s) ==
    /\ LocalAtDomainTld(s)
    /\ \A k \in 1..Len(s) : ~IsSpace(s[k])

\* a call of submitFooterEmail: the footer button was pressed
FooterCalled == ev' \in {"footerRejected", "footerSent"}

\* C22: submitFooterEmail sends nothing for an empty email or one that is not
\* local@domain.tld in full without whitespace, and for a matching one sends
\* exactly one POST whose body has role Subscriber and the entered email as
\* both name and email
C22_FooterGate ==
    [][FooterCalled =>
         IF footerEmail # <<>> /\ FullShape(footerEmail)
         THEN /\ Len(footerInflight') = Len(footerInflight) + 1
              /\ SubSeq(footerInflight', 1, Len(footerInflight)) = footerInflight
              /\ LET body == footerInflight'[Len(footerInflight')].body
                 IN  /\ body.role = "Subscriber"
                     /\ body.name = footerEmail
                     /\ body.email = footerEmail
         ELSE footerInflight' = footerInflight]_vars

\* the footer sent a matching email
C22_Witness ==
    /\ ev = "footerSent"
    /\ footerEmail = S_mail
    /\ Len(footerInflight) = 1
    /\ footerInflight[1].body.role = "Subscriber"
    /\ footerInflight[1].body.email = S_mail

\* C23: a tracking call neither throws into nor delays the submit handler:
\* the step that handles a 2xx response resets the form and clears submitting
\* whether analytics is unconfigured or its requests are still pending, the
\* form state it leaves does not depend on analytics, and an analytics
\* request that completes or fails changes nothing of the form
C23_TrackingNeverBlocks ==
    [][/\ ev' = "ok2xx"
           => /\ values' = DefaultValues(page)
              /\ errors' = {}
              /\ submitting' = FALSE
              /\ thankYou' /\ successModal'
              /\ Len(inflight') = Len(inflight) - 1
              /\ UNCHANGED <<joinPending, submitError, focused, taps,
                             toastVars>>
       /\ ev' \in {"gaDone", "gaFailed"}
           => UNCHANGED <<formVars, toastVars, tracked>>]_vars

\* the handler has finished while both of its analytics requests are pending
C23_Witness ==
    /\ ev = "ok2xx"
    /\ gaConfigured /\ gaPending = 2
    /\ values = DefaultValues(page)
    /\ ~submitting

\* the handler has finished with analytics unconfigured
C23_WitnessUnconfigured ==
    /\ ev = "ok2xx"
    /\ ~gaConfigured /\ gaPending = 0
    /\ values = DefaultValues(page)
    /\ ~submitting

\* the first field that fails its rule, in the order name, email, role
FirstInvalid(vals) ==
    IF ~FieldValid("name", vals.name) THEN "name"
    ELSE IF ~FieldValid("email", vals.email) THEN "email"
    ELSE IF ~FieldValid("role", vals.role) THEN "role"
    ELSE "none"

\* C24: when onPressJoin finds the waitlist form invalid, the field given
\* focus is the first invalid one in the order name, email, role, as found by
\* the validation that intent itself ran
C24_FocusFirstInvalid ==
    [][(page = "index" /\ HandlerCalled /\ ev' = "invalid")
        => focused' = FirstInvalid(values)]_vars

\* C25: every name in a waitlist or referral body awaiting its response has
\* at least 2 characters and every email in one has the full
\* local@domain.tld shape without whitespace
C25_SentValuesSatisfyRules ==
    /\ \A i \in 1..Len(inflight) :
          LET body == inflight[i].body
          IN  IF page = "index"
              THEN /\ Len(body.name) >= MIN_LENGTH
                   /\ FullShape(body.email)
              ELSE /\ Len(body.referrer_name) >= MIN_LENGTH
                   /\ Len(body.referral_name) >= MIN_LENGTH
                   /\ FullShape(body.referrer_email)
    /\ \A i \in 1..Len(footerInflight) :
          /\ Len(footerInflight[i].body.name) >= MIN_LENGTH
          /\ FullShape(footerInflight[i].body.email)

\* C26: every waitlist_submit or referral_submit event handed to analytics
\* belongs to a submission the server answered with a 2xx status, and only a
\* step that handles a response emits one; for the waitlist form, the footer
\* micro-form and the referral form
C26_SubmitTrackedOnly2xx ==
    [][\A t \in tracked' :
          t.event \in {"waitlist_submit", "referral_submit"}
             => /\ t.status = "ok2xx"
                /\ (t \notin tracked => resp'.kind = "ok2xx")]_vars

\* C27: on the referral form no submission error message is set while the
\* success modal is shown
C27_NoErrorUnderSuccess ==
    (page = "refer" /\ ModalShown) => submitError = "null"

\* C30: after the launch redirect every waitlist write of the landing page
\* carries utm_source ig, utm_campaign launch and utm_medium social, on web
\* and on native platforms
C30_LaunchAttribution ==
    page = "index" =>
        \A body \in Bodies :
            /\ UtmKeys \subseteq DOMAIN body
            /\ body.utm_source = "ig"
            /\ body.utm_campaign = "launch"
            /\ body.utm_medium = "social"

\* C28: every request made while a token is stored bears that token in its
\* Authorization header, the first requests after a load with a stored token
\* included, and a request made with no token stored bears none
C28_RequestsBearToken ==
    \A r \in issued :
        IF r.stored # None THEN r.auth = r.stored ELSE r.auth = None

\* C29: the orderIndex values linkPart has sent for the build are pairwise
\* distinct and each is the number of parts linked to the build when sent
C29_OrderIndexDistinct ==
    /\ \A i, j \in 1..Len(sentIndexes) :
          i # j => sentIndexes[i].orderIndex # sentIndexes[j].orderIndex
    /\ \A i \in 1..Len(sentIndexes) :
          sentIndexes[i].orderIndex = sentIndexes[i].linked

=============================================================================
